---- MODULE Spec2Model ----
(***************************************************************************)
(* Identity and email-confirmation lifecycle of rust-saas-starter.        *)
(*                                                                         *)
(* The users table of the Postgres repository, the EmailAddressService    *)
(* (send_email_confirmation / confirm_email) and the HTTP handlers that   *)
(* first read the user and then call the service.  Each request is served *)
(* by its own task; a task is suspended at every await on the repository  *)
(* or the mailer, so the steps of different requests interleave there.    *)
(*                                                                         *)
(* Time is counted in ticks of 24 hours.  Option<T> is a sequence of      *)
(* length 0 (None) or 1 (Some).  A token is a sequence of bytes.          *)
(***************************************************************************)
EXTENDS Integers, Sequences, FiniteSets, TLC

\* ------------------------------------------------------------------ bounds
\* Last clock tick the model reaches.
MaxTime == 2

\* Number of confirmation tokens that may be generated in one behaviour.
MaxTokens == 2

\* Duration::hours(24), in clock ticks of 24 hours.
Hours24 == 1

\* User ids (Uuid::now_v7 values), email addresses and request tasks.
Ids == {"u1", "u2"}
Emails == {"a", "b"}
Procs == {"p1", "p2"}

\* The account the confirmation requests are addressed to; the other id
\* is used by create_user only, as the account that holds an address.
Targets == {"u1"}

\* ------------------------------------------------------------ Option<T>
None == <<>>
Some(x) == <<x>>
is_some(o) == Len(o) = 1
is_none(o) == Len(o) = 0
unwrap(o) == o[1]

\* COALESCE(param, column) of the SQL statements.
COALESCE(o, v) == IF is_some(o) THEN unwrap(o) ELSE v

\* ---------------------------------------------------------------- tokens
\* The k-th token produced by generate_email_confirmation_token.  The
\* token is the base64 of a SHA-256 over a 64 character random salt, so
\* every call yields a token not produced before; all have one length.
Token(k) == <<k, 0>>

\* Strings a client may present that were never generated: the empty
\* string, one of a token's length and a longer one.
Bogus == {<<>>, <<1, 1>>, <<1, 0, 0>>}

VARIABLES
    db,         \* users table: id -> Option<row>
    now,        \* the clock (Utc::now() and the database's NOW())
    nextToken,  \* index of the next token to be generated
    slot,       \* the request each task is serving and how far it got
    stored,     \* per user, the tokens written by update_email_confirmation_token, in order
    plainConfirmed  \* per user, whether a confirmation of the current email has completed

vars == <<db, now, nextToken, slot, stored, plainConfirmed>>

\* A row of the users table right after INSERT: the confirmation columns
\* are NULL.
NewRow(email) ==
    [email |-> email,
     new_email |-> None,
     email_confirmed_at |-> None,
     email_confirmation_token |-> None,
     email_confirmation_sent_at |-> None]

\* A task that serves no request.
Idle ==
    [kind |-> "idle", pc |-> "idle", uid |-> "u1", user |-> None,
     token |-> <<>>, new_email |-> None, seen |-> FALSE, nstored |-> 0,
     invoked |-> FALSE, updated |-> FALSE, mailed |-> "no", to |-> None,
     result |-> "None", id |-> None, expires_at |-> None]

Init ==
    /\ db = [u \in Ids |-> None]
    /\ now = 0
    /\ nextToken = 1
    /\ slot = [p \in Procs |-> Idle]
    /\ stored = [u \in Ids |-> <<>>]
    /\ plainConfirmed = [u \in Ids |-> FALSE]

\* A handler that has its result returns it without a further await, so
\* nothing else runs between its last step and its response.
NoneDone == \A q \in Procs : slot[q].pc # "done"

\* A request is taken by the first free task (the tasks are alike).
FirstFree(p) ==
    /\ NoneDone
    /\ slot[p].pc = "idle"
    /\ p = "p2" => slot["p1"].pc # "idle"

\* The tasks after task p took a request, which is now in state `mine`.
Taken(p, mine) == [slot EXCEPT ![p] = mine]

\* ----------------------------------------------------------------- clock
Tick ==
    /\ NoneDone
    /\ now < MaxTime
    /\ now' = now + 1
    /\ UNCHANGED <<db, nextToken, slot, stored, plainConfirmed>>

\* ------------------------------------------------------------ repository
\* The unique index on users.email, which the INSERT and the UPDATE of
\* email run into: some row other than `except` holds e.
EmailTaken(table, e, except) ==
    \E u \in Ids \ {except} : is_some(table[u]) /\ unwrap(table[u]).email = e

\* create_user on a table without the uniqueness check.
create_user_unchecked(table, id, email) == "Ok"

\* INSERT INTO users (id, email, password) RETURNING id: Ok (with the id)
\* or, on a unique violation, DuplicateUser.
create_user(table, id, email) ==
    IF EmailTaken(table, email, id) \/ is_some(table[id])
    THEN "DuplicateUser"
    ELSE "Ok"

\* The create-user request: the handler draws a new id (Uuid::now_v7) and
\* the service returns the repository's result.
CreateUser(p, id, email) ==
    /\ FirstFree(p)
    /\ is_none(db[id])
    /\ LET res == create_user(db, id, email) IN
        /\ db' = IF res = "Ok" THEN [db EXCEPT ![id] = Some(NewRow(email))] ELSE db
        /\ slot' = Taken(p,
                [Idle EXCEPT !.kind = "create", !.pc = "done", !.uid = id,
                             !.new_email = Some(email), !.result = res,
                             !.id = IF res = "Ok" THEN Some(id) ELSE None])
    /\ UNCHANGED <<now, nextToken, stored, plainConfirmed>>

\* The SELECT without its WHERE clause: a row of the table, if it has one.
get_user_by_id_any(table, id) ==
    IF \E u \in Ids : is_some(table[u])
    THEN table[CHOOSE u \in Ids : is_some(table[u])]
    ELSE None

\* SELECT ... FROM users WHERE id = $1: the row, or RowNotFound.
get_user_by_id(table, id) == table[id]

\* update_email_confirmation_token without the assignment of
\* email_confirmation_sent_at.
update_email_confirmation_token_unstamped(row, token, new_email, t) ==
    [row EXCEPT !.email_confirmation_token = Some(token),
                !.new_email = IF is_some(new_email) THEN new_email ELSE @]

\* update_email_confirmation_token writing the new address to email.
update_email_confirmation_token_to_email(row, token, new_email, t) ==
    [row EXCEPT !.email_confirmation_token = Some(token),
                !.email_confirmation_sent_at = Some(t),
                !.email = IF is_some(new_email) THEN unwrap(new_email) ELSE @]

\* update_email_confirmation_token without the assignment of the token.
update_email_confirmation_token_keep(row, token, new_email, t) ==
    [row EXCEPT !.email_confirmation_sent_at = Some(t),
                !.new_email = IF is_some(new_email) THEN new_email ELSE @]

\* UPDATE users SET email_confirmation_token = $1,
\* email_confirmation_sent_at = NOW(), new_email = COALESCE($3, new_email).
update_email_confirmation_token(row, token, new_email, t) ==
    [row EXCEPT !.email_confirmation_token = Some(token),
                !.email_confirmation_sent_at = Some(t),
                !.new_email = IF is_some(new_email) THEN new_email ELSE @]

\* update_email_confirmed without the assignment of email.
update_email_confirmed_keep_email(row, new_email, t) ==
    [row EXCEPT !.email_confirmed_at = Some(t),
                !.email_confirmation_token = None,
                !.new_email = None]

\* update_email_confirmed without the assignment of email_confirmed_at.
update_email_confirmed_nostamp(row, new_email, t) ==
    [row EXCEPT !.email_confirmation_token = None,
                !.email = COALESCE(new_email, @),
                !.new_email = None]

\* UPDATE users SET email_confirmed_at = NOW(),
\* email_confirmation_token = NULL, email = COALESCE($2, email),
\* new_email = NULL.
update_email_confirmed(row, new_email, t) ==
    [row EXCEPT !.email_confirmed_at = Some(t),
                !.email_confirmation_token = None,
                !.email = COALESCE(new_email, @),
                !.new_email = None]

\* The database error of update_email_confirmed as an UpdateUserError:
\* RowNotFound is UserNotFound and everything else is UnknownError.
UpdateUserError_from(err) ==
    IF err = "RowNotFound" THEN "UserNotFound" ELSE "UnknownError"

\* impl From<UpdateUserError> for EmailConfirmationError.
EmailConfirmationError_from_update(err) ==
    CASE err = "UserNotFound" -> "UserNotFound"
      [] err = "UnknownError" -> "UnknownError"
      [] err = "EmailAddressInUse" -> "EmailAddressInUse"

\* Every MailerError turned into the unknown error.
EmailConfirmationError_from_mailer_unknown(err) == "UnknownError"

\* impl From<MailerError> for EmailConfirmationError.
EmailConfirmationError_from_mailer(err) ==
    IF err \in {"SendError", "InvalidEmail"}
    THEN "CouldNotSendEmail"
    ELSE "UnknownError"

\* --------------------------------------------------------------- service
\* The guard without the test of the pending new email.
EmailAlreadyConfirmed_any(user) == is_some(user.email_confirmed_at)

\* The guard both service operations start with.
EmailAlreadyConfirmed(user) ==
    is_some(user.email_confirmed_at) /\ is_none(user.new_email)

\* A comparison over the common prefix only, without the length check.
constant_time_eq_prefix(a, b) ==
    \A i \in 1..(IF Len(a) < Len(b) THEN Len(a) ELSE Len(b)) : a[i] = b[i]

\* constant_time_eq: slices of different lengths are unequal, slices of
\* one length are equal when no byte differs.
constant_time_eq(a, b) ==
    /\ Len(a) = Len(b)
    /\ \A i \in 1..Len(a) : a[i] = b[i]

\* The expiry test with >= in place of >.
Expired_at_limit(sent_at, t) == t >= sent_at + Hours24

\* Utc::now() > confirmation_sent_at + Duration::hours(24)
Expired(sent_at, t) == t > sent_at + Hours24

\* The checks of confirm_email with the comparison before the expiry test.
confirm_email_checks_compare_first(user, token, t) ==
    IF EmailAlreadyConfirmed(user) THEN "EmailAlreadyConfirmed"
    ELSE IF is_none(user.email_confirmation_token) THEN "ConfirmationTokenMismatch"
    ELSE IF is_none(user.email_confirmation_sent_at) THEN "ConfirmationTokenMismatch"
    ELSE IF ~constant_time_eq(token, unwrap(user.email_confirmation_token))
        THEN "ConfirmationTokenMismatch"
    ELSE IF Expired(unwrap(user.email_confirmation_sent_at), t)
        THEN "ConfirmationTokenExpired"
    ELSE "Ok"

\* The checks of confirm_email, in the order of the code; "Ok" when the
\* repository is to be called.
confirm_email_checks(user, token, t) ==
    IF EmailAlreadyConfirmed(user) THEN "EmailAlreadyConfirmed"
    ELSE IF is_none(user.email_confirmation_token) THEN "ConfirmationTokenMismatch"
    ELSE IF is_none(user.email_confirmation_sent_at) THEN "ConfirmationTokenMismatch"
    ELSE IF Expired(unwrap(user.email_confirmation_sent_at), t)
        THEN "ConfirmationTokenExpired"
    ELSE IF ~constant_time_eq(token, unwrap(user.email_confirmation_token))
        THEN "ConfirmationTokenMismatch"
    ELSE "Ok"

\* The recipient taken from the user whatever the confirmation type.
Recipient_current(user, new_email) == user.email

\* The recipient send_email_confirmation picks for the confirmation type:
\* CurrentEmail (None) or NewEmail(e) (Some(e)).
Recipient(user, new_email) == COALESCE(new_email, user.email)

\* send_email_confirmation going on to the mailer whatever the update
\* returned.
after_token_update_always(ok) == "mail"

\* `?` on the result of generate_email_confirmation_token: the mailer is
\* reached only when the repository update returned Ok.
after_token_update(ok) == IF ok THEN "mail" ELSE "done"

\* ---------------------------------------------------------------- handlers
\* The first statement of the handlers with a missing user answered as an
\* unknown error.
Begin_unknown(p, kind, uid) ==
    /\ FirstFree(p)
    /\ LET user == get_user_by_id(db, uid) IN
        slot' = Taken(p,
            [Idle EXCEPT !.kind = kind, !.uid = uid, !.user = user,
                         !.seen = plainConfirmed[uid],
                         !.nstored = Len(stored[uid]),
                         !.pc = IF is_some(user) THEN "got" ELSE "done",
                         !.result = IF is_some(user) THEN "None" ELSE "UnknownError"])
    /\ UNCHANGED <<db, now, nextToken, stored, plainConfirmed>>

\* The first statement of the three handlers: state.users.get_user_by_id.
\* A missing user ends the request with the not-found response.  The
\* request's own input (the token of the query string, the address of the
\* body) is not looked at before the service is called and is drawn there.
Begin(p, kind, uid) ==
    /\ FirstFree(p)
    /\ LET user == get_user_by_id(db, uid) IN
        slot' = Taken(p,
            [Idle EXCEPT !.kind = kind, !.uid = uid, !.user = user,
                         !.seen = plainConfirmed[uid],
                         !.nstored = Len(stored[uid]),
                         !.pc = IF is_some(user) THEN "got" ELSE "done",
                         !.result = IF is_some(user) THEN "None" ELSE "UserNotFound"])
    /\ UNCHANGED <<db, now, nextToken, stored, plainConfirmed>>

\* POST /api/v1/users/{id}/email/confirmation
SendEmailConfirmationHandler(p, uid) == Begin(p, "send", uid)

\* POST /api/v1/users/{id}/email/change
ChangeEmailHandler(p, uid) == Begin(p, "change", uid)

\* GET /api/v1/users/{id}/email/confirmation?token=
ConfirmEmailHandler(p, uid) == Begin(p, "confirm", uid)

\* The confirmation type each handler passes: CurrentEmail is None and
\* NewEmail(e) is Some(e).
ConfirmationTypes(kind) ==
    IF kind = "change" THEN {Some(e) : e \in Emails} ELSE {None}

\* send_email_confirmation up to the await on the repository: the guard,
\* the new token and update_email_confirmation_token, which returns Ok
\* or fails.
StoreToken(p, ok, new_email) ==
    LET s == slot[p]
        user == unwrap(s.user)
        tok == Token(nextToken)
    IN
    /\ NoneDone
    /\ s.pc = "got"
    /\ s.kind \in {"send", "change"}
    /\ new_email \in ConfirmationTypes(s.kind)
    /\ IF EmailAlreadyConfirmed(user)
       THEN /\ ok
            /\ slot' = [slot EXCEPT ![p].pc = "done", ![p].new_email = new_email,
                                    ![p].result = "EmailAlreadyConfirmed"]
            /\ UNCHANGED <<db, nextToken, stored>>
       ELSE /\ nextToken <= MaxTokens
            /\ slot' = [slot EXCEPT ![p].pc = after_token_update(ok),
                                    ![p].new_email = new_email,
                                    ![p].to = Some(Recipient(user, new_email)),
                                    ![p].user = IF after_token_update(ok) = "mail"
                                                THEN None ELSE @,
                                    ![p].token = tok,
                                    ![p].invoked = TRUE,
                                    ![p].updated = ok,
                                    ![p].result = IF ok THEN "None" ELSE "UnknownError"]
            /\ IF ok
               THEN /\ db' = [db EXCEPT ![s.uid] = Some(
                          update_email_confirmation_token(unwrap(@), tok, new_email, now))]
                    /\ stored' = [stored EXCEPT ![s.uid] = Append(@, tok)]
                    /\ nextToken' = nextToken + 1
               ELSE UNCHANGED <<db, stored, nextToken>>
    /\ UNCHANGED <<now, plainConfirmed>>

\* send_email_confirmation putting the previous token back when the
\* Mailer fails.
SendMail_restore(p, outcome) ==
    LET s == slot[p]
        n == Len(stored[s.uid])
    IN
    /\ NoneDone
    /\ s.pc = "mail"
    /\ IF outcome = "Ok"
       THEN /\ slot' = [slot EXCEPT ![p].pc = "done", ![p].result = "Ok",
                               ![p].mailed = "sent",
                               ![p].expires_at = Some(now + Hours24)]
            /\ UNCHANGED db
       ELSE /\ slot' = [slot EXCEPT ![p].pc = "done", ![p].mailed = "failed",
                               ![p].result = EmailConfirmationError_from_mailer(outcome)]
            /\ db' = [db EXCEPT ![s.uid] = Some([unwrap(@) EXCEPT
                        !.email_confirmation_token =
                            IF n >= 2 THEN Some(stored[s.uid][n - 1]) ELSE None])]
    /\ UNCHANGED <<now, nextToken, stored, plainConfirmed>>

\* send_email_confirmation after the repository returned: the expiry, the
\* rendered mail and Mailer::send_email.
SendMail(p, outcome) ==
    LET s == slot[p] IN
    /\ NoneDone
    /\ s.pc = "mail"
    /\ IF outcome = "Ok"
       THEN slot' = [slot EXCEPT ![p].pc = "done", ![p].result = "Ok",
                               ![p].mailed = "sent",
                               ![p].expires_at = Some(now + Hours24)]
       ELSE slot' = [slot EXCEPT ![p].pc = "done", ![p].mailed = "failed",
                               ![p].result = EmailConfirmationError_from_mailer(outcome)]
    /\ UNCHANGED <<db, now, nextToken, stored, plainConfirmed>>

\* The tokens a client can present: the generated ones and the bogus ones.
Presentable == {Token(k) : k \in 1..(nextToken - 1)} \cup Bogus

\* confirm_email: the checks on the user the handler read and, when they
\* pass, update_email_confirmed with the user's pending new email.
ConfirmEmail(p, token) ==
    LET s == slot[p]
        user == unwrap(s.user)
        check == confirm_email_checks(user, token, now)
        clash == is_some(user.new_email) /\ EmailTaken(db, unwrap(user.new_email), s.uid)
    IN
    /\ NoneDone
    /\ s.pc = "got"
    /\ s.kind = "confirm"
    /\ IF check # "Ok"
       THEN /\ slot' = [slot EXCEPT ![p].pc = "done", ![p].token = token,
                                    ![p].result = check]
            /\ UNCHANGED <<db, plainConfirmed>>
       ELSE IF clash
       THEN /\ slot' = [slot EXCEPT ![p].pc = "done", ![p].token = token,
                            ![p].invoked = TRUE,
                            ![p].result = EmailConfirmationError_from_update(
                                              UpdateUserError_from("UniqueViolation"))]
            /\ UNCHANGED <<db, plainConfirmed>>
       ELSE /\ slot' = [slot EXCEPT ![p].pc = "done", ![p].token = token,
                                    ![p].invoked = TRUE, ![p].updated = TRUE,
                                    ![p].result = "Ok"]
            /\ db' = [db EXCEPT ![s.uid] = Some(
                          update_email_confirmed(unwrap(@), user.new_email, now))]
            /\ plainConfirmed' = [plainConfirmed EXCEPT ![s.uid] =
                    @ \/ (is_none(user.email_confirmed_at) /\ is_none(user.new_email))]
    /\ UNCHANGED <<now, nextToken, stored>>

\* The response has been written; the task is free for the next request.
Respond(p) ==
    /\ slot[p].pc = "done"
    /\ slot' = [slot EXCEPT ![p] = Idle]
    /\ UNCHANGED <<db, now, nextToken, stored, plainConfirmed>>

\* What Mailer::send_email returns: Ok or a MailerError.
MailerOutcomes == {"Ok", "SendError", "InvalidEmail", "UnknownError"}

Next ==
    \/ Tick
    \/ \E p \in Procs, id \in Ids, e \in Emails : CreateUser(p, id, e)
    \/ \E p \in Procs, uid \in Targets : SendEmailConfirmationHandler(p, uid)
    \/ \E p \in Procs, uid \in Targets : ChangeEmailHandler(p, uid)
    \/ \E p \in Procs, uid \in Targets : ConfirmEmailHandler(p, uid)
    \/ \E p \in Procs, ok \in BOOLEAN, e \in {None} \cup {Some(x) : x \in Emails} :
            StoreToken(p, ok, e)
    \/ \E p \in Procs, outcome \in MailerOutcomes : SendMail(p, outcome)
    \/ \E p \in Procs, t \in Presentable : ConfirmEmail(p, t)
    \/ \E p \in Procs : Respond(p)

Spec == Init /\ [][Next]_vars

\* ======================================================================
\* domain/auth/services/user.rs: the UserService whose create_user hands
\* the first confirmation mail to a spawned task.  Its repository
\* (infrastructure/db/postgres/auth/repositories/users.rs) has no
\* new_email column.  A call is in `slot` as a record of the shape NoCall.
\* ======================================================================
\* A row of that users table right after INSERT.
UserRow(email) ==
    [email |-> email,
     email_confirmed_at |-> None,
     email_confirmation_token |-> None,
     email_confirmation_sent_at |-> None]

\* UPDATE users SET email_confirmation_token = $1,
\* email_confirmation_sent_at = NOW() WHERE id = $2
UserRepository_update_email_confirmation_token(row, token, t) ==
    [row EXCEPT !.email_confirmation_token = Some(token),
                !.email_confirmation_sent_at = Some(t)]

\* UPDATE users SET email_confirmed_at = NOW(),
\* email_confirmation_token = NULL WHERE id = $1
UserRepository_update_email_confirmed(row, t) ==
    [row EXCEPT !.email_confirmed_at = Some(t),
                !.email_confirmation_token = None]

\* NewUser::new without the confirmation requirement.
email_confirmation_not_required == FALSE

\* NewUser::new: email_confirmation_required: true.  No other constructor
\* or setter of the field exists.
email_confirmation_required == TRUE

\* create_user returning the task's error when the task has one.
create_user_joined(result, task) ==
    IF task \in {"None", "Ok"} THEN result ELSE task

\* The last expression of create_user: `result`, the value of
\* repo.create_user; the JoinHandle of the task is dropped.
create_user_returns(result, task) == result

\* A task that serves no call.  created: the result of repo.create_user;
\* returned: what the caller of create_user received; result: the result
\* of send_email_confirmation or confirm_email (in the spawned task it is
\* discarded by .ok()).
NoCall ==
    [kind |-> "idle", pc |-> "idle", id |-> "u1", email |-> "a",
     user |-> None, created |-> "None",
     returned |-> "None", result |-> "None"]

UserService_Init ==
    /\ db = [u \in Ids |-> None]
    /\ now = 0
    /\ nextToken = 1
    /\ slot = [p \in Procs |-> NoCall]
    /\ stored = [u \in Ids |-> <<>>]
    /\ plainConfirmed = [u \in Ids |-> FALSE]

\* A call is taken by the first free task (the tasks are alike).
UserService_free(p) ==
    /\ slot[p].pc = "idle"
    /\ p = "p2" => slot["p1"].pc # "idle"

UserService_Tick ==
    /\ now < MaxTime
    /\ now' = now + 1
    /\ UNCHANGED <<db, nextToken, slot, stored, plainConfirmed>>

\* create_user up to tokio::spawn: the repository's INSERT, and the task
\* spawned whatever the INSERT returned.  The id is the one NewUser::new
\* drew (Uuid::now_v7): no row and no call in flight has it.
UserService_create_user(p, id, email) ==
    LET result == create_user(db, id, email) IN
    /\ UserService_free(p)
    /\ is_none(db[id])
    /\ \A q \in Procs : slot[q].kind = "create" => slot[q].id # id
    /\ slot' = [slot EXCEPT ![p] =
            [NoCall EXCEPT !.kind = "create", !.pc = "spawned", !.id = id,
                           !.email = email, !.created = result]]
    /\ db' = IF result = "Ok" THEN [db EXCEPT ![id] = Some(UserRow(email))] ELSE db
    /\ UNCHANGED <<now, nextToken, stored, plainConfirmed>>

\* create_user returns to its caller; the spawned task runs on its own,
\* before or after this.
UserService_create_user_return(p) ==
    /\ slot[p].kind = "create"
    /\ slot[p].returned = "None"
    /\ slot' = [slot EXCEPT ![p].returned =
                    create_user_returns(slot[p].created, slot[p].result)]
    /\ UNCHANGED <<db, now, nextToken, stored, plainConfirmed>>

\* A call of send_email_confirmation by a handler.
UserService_send_email_confirmation(p, id) ==
    /\ UserService_free(p)
    /\ slot' = [slot EXCEPT ![p] =
            [NoCall EXCEPT !.kind = "send", !.pc = "spawned", !.id = id]]
    /\ UNCHANGED <<db, now, nextToken, stored, plainConfirmed>>

\* The first step of the spawned task, or of send_email_confirmation:
\* get_user_by_id; in the task, update_email_confirmed instead when no
\* confirmation is required.
UserService_task_start(p) ==
    LET s == slot[p]
        user == get_user_by_id(db, s.id)
    IN
    /\ s.pc = "spawned"
    /\ IF s.kind = "create" /\ ~email_confirmation_required
       THEN /\ slot' = [slot EXCEPT ![p].pc = "done"]
            /\ db' = [db EXCEPT ![s.id] =
                    IF is_some(@)
                    THEN Some(UserRepository_update_email_confirmed(unwrap(@), now))
                    ELSE @]
       ELSE /\ slot' = [slot EXCEPT
                    ![p].user = user,
                    ![p].pc = IF is_some(user) THEN "got" ELSE "done",
                    ![p].result = IF is_some(user) THEN "None" ELSE "UserNotFound"]
            /\ UNCHANGED db
    /\ UNCHANGED <<now, nextToken, stored, plainConfirmed>>

\* send_email_confirmation: the guard and generate_email_confirmation_token
\* with its update_email_confirmation_token, which returns Ok or fails.
UserService_store_token(p, ok) ==
    LET s == slot[p]
        user == unwrap(s.user)
        tok == Token(nextToken)
    IN
    /\ s.pc = "got"
    /\ s.kind \in {"create", "send"}
    /\ IF is_some(user.email_confirmed_at)
       THEN /\ ok
            /\ slot' = [slot EXCEPT ![p].pc = "done",
                                    ![p].result = "EmailAlreadyConfirmed"]
            /\ UNCHANGED <<db, nextToken, stored>>
       ELSE /\ nextToken <= MaxTokens
            /\ slot' = [slot EXCEPT ![p].pc = IF ok THEN "mail" ELSE "done",
                                    ![p].user = IF ok THEN None ELSE @,
                                    ![p].result = IF ok THEN "None" ELSE "UnknownError"]
            /\ IF ok
               THEN /\ db' = [db EXCEPT ![s.id] = Some(
                          UserRepository_update_email_confirmation_token(unwrap(@), tok, now))]
                    /\ stored' = [stored EXCEPT ![s.id] = Append(@, tok)]
                    /\ nextToken' = nextToken + 1
               ELSE UNCHANGED <<db, stored, nextToken>>
    /\ UNCHANGED <<now, plainConfirmed>>

\* send_email_confirmation: the rendered mail and Mailer::send_email.
UserService_send_mail(p, outcome) ==
    /\ slot[p].pc = "mail"
    /\ slot' = [slot EXCEPT ![p].pc = "done",
                            ![p].result = IF outcome = "Ok" THEN "Ok"
                                ELSE EmailConfirmationError_from_mailer(outcome)]
    /\ UNCHANGED <<db, now, nextToken, stored, plainConfirmed>>

\* confirm_email, first statement: get_user_by_id.
UserService_confirm_email(p, id) ==
    LET user == get_user_by_id(db, id) IN
    /\ UserService_free(p)
    /\ slot' = [slot EXCEPT ![p] =
            [NoCall EXCEPT !.kind = "confirm", !.id = id, !.user = user,
                           !.pc = IF is_some(user) THEN "got" ELSE "done",
                           !.result = IF is_some(user) THEN "None" ELSE "UserNotFound"]]
    /\ UNCHANGED <<db, now, nextToken, stored, plainConfirmed>>

\* confirm_email after the read: already confirmed, no token, no sent-at,
\* expired, mismatch, and then update_email_confirmed.
UserService_confirm_email_checks(user, token, t) ==
    IF is_some(user.email_confirmed_at) THEN "EmailAlreadyConfirmed"
    ELSE IF is_none(user.email_confirmation_token) THEN "ConfirmationTokenMismatch"
    ELSE IF is_none(user.email_confirmation_sent_at) THEN "ConfirmationTokenMismatch"
    ELSE IF t > unwrap(user.email_confirmation_sent_at) + Hours24
         THEN "ConfirmationTokenExpired"
    ELSE IF ~constant_time_eq(token, unwrap(user.email_confirmation_token))
         THEN "ConfirmationTokenMismatch"
    ELSE "Ok"

UserService_confirm_email_update(p, token) ==
    LET s == slot[p]
        check == UserService_confirm_email_checks(unwrap(s.user), token, now)
    IN
    /\ s.pc = "got"
    /\ s.kind = "confirm"
    /\ slot' = [slot EXCEPT ![p].pc = "done", ![p].result = check]
    /\ IF check = "Ok"
       THEN /\ db' = [db EXCEPT ![s.id] = Some(
                        UserRepository_update_email_confirmed(unwrap(@), now))]
            /\ plainConfirmed' = [plainConfirmed EXCEPT ![s.id] = TRUE]
       ELSE UNCHANGED <<db, plainConfirmed>>
    /\ UNCHANGED <<now, nextToken, stored>>

\* A finished call leaves its task; a create_user call once it has both
\* returned and seen its spawned task end.
UserService_finished(p) ==
    /\ slot[p].pc = "done"
    /\ slot[p].kind = "create" => slot[p].returned # "None"
    /\ slot' = [slot EXCEPT ![p] = NoCall]
    /\ UNCHANGED <<db, now, nextToken, stored, plainConfirmed>>

UserService_Next ==
    \/ UserService_Tick
    \/ \E p \in Procs, id \in Ids, e \in Emails : UserService_create_user(p, id, e)
    \/ \E p \in Procs : UserService_create_user_return(p)
    \/ \E p \in Procs, id \in Targets : UserService_send_email_confirmation(p, id)
    \/ \E p \in Procs : UserService_task_start(p)
    \/ \E p \in Procs, ok \in BOOLEAN : UserService_store_token(p, ok)
    \/ \E p \in Procs, outcome \in MailerOutcomes : UserService_send_mail(p, outcome)
    \/ \E p \in Procs, id \in Targets : UserService_confirm_email(p, id)
    \/ \E p \in Procs, t \in Presentable : UserService_confirm_email_update(p, t)
    \/ \E p \in Procs : UserService_finished(p)

UserService_Spec == UserService_Init /\ [][UserService_Next]_vars

\* ======================================================================
\* The confirmation link: ConfirmEmailAddressTemplate::new builds it, the
\* router of the HTTPS server takes it apart again.  A string is a
\* sequence of lexemes: the separators "/", "?", "=", "&", the path
\* segments, and the characters of the token one by one.
\* ======================================================================
\* Characters of the standard base64 alphabet: a letter, a digit, and the
\* two that differ from the URL-safe alphabet.
STANDARD == {"A", "9", "+", "/"}

\* Characters URL_SAFE.encode produces: a letter, a digit, and the two
\* that differ from the standard alphabet; "=" is the padding.
URL_SAFE == {"A", "9", "-", "_"}

\* URL_SAFE.encode(hash_result): the characters of the hash (two of them
\* here) and the padding that ends the encoding of 32 bytes.
EncodedTokens == {<<a, b, "=">> : a, b \in URL_SAFE}

\* Values of the base_url setting: an origin, without a trailing slash
\* (the default is https://localhost:3443).
BaseUrls == {<<"https://localhost:3443">>, <<"https://example.com">>}

\* format!("{base_url}/api/v1/users/{user_id}/email/confirmation?token={token}")
ConfirmEmailAddressTemplate_new(base_url, user_id, token) ==
    base_url
        \o <<"/", "api", "/", "v1", "/", "users", "/", user_id,
             "/", "email", "/", "confirmation", "?", "token", "=">>
        \o token

\* Position of the first lexeme c in s, or 0.
Find(s, c) ==
    IF \E i \in 1..Len(s) : s[i] = c
    THEN CHOOSE i \in 1..Len(s) : s[i] = c /\ \A j \in 1..(i - 1) : s[j] # c
    ELSE 0

\* The request target of a link: what follows the origin.
Target(link) == SubSeq(link, 2, Len(link))

\* Uri::path and Uri::query: the target up to and after the first "?".
uri_path(target) ==
    IF Find(target, "?") = 0 THEN target
    ELSE SubSeq(target, 1, Find(target, "?") - 1)

uri_query(target) ==
    IF Find(target, "?") = 0 THEN <<>>
    ELSE SubSeq(target, Find(target, "?") + 1, Len(target))

\* form_urlencoded decoding of one character: "+" stands for a space.
\* (No generated token holds a "%", so percent-decoding has nothing to do.)
urldecode(s) == [i \in 1..Len(s) |-> IF s[i] = "+" THEN " " ELSE s[i]]

\* Query<ConfirmEmailParams>: the first pair of the query (up to "&"),
\* split at its first "="; the value of the key token, or None.
Query_token(query) ==
    LET pair == IF Find(query, "&") = 0 THEN query
                ELSE SubSeq(query, 1, Find(query, "&") - 1)
        eq == Find(pair, "=")
    IN IF eq = 2 /\ pair[1] = "token"
       THEN Some(urldecode(SubSeq(pair, eq + 1, Len(pair))))
       ELSE None

\* Router::new().nest("/api/v1", v1::router()) and the routes of
\* v1::router for /users/:id/email/confirmation: the handler a request
\* reaches, with its Path and Query extractors.
router(method, target) ==
    LET path == uri_path(target)
        token == Query_token(uri_query(target))
    IN IF /\ Len(path) = 12
          /\ SubSeq(path, 1, 7) = <<"/", "api", "/", "v1", "/", "users", "/">>
          /\ path[8] \in Ids
          /\ SubSeq(path, 9, 12) = <<"/", "email", "/", "confirmation">>
       THEN IF method = "POST"
            THEN [handler |-> "send_email_confirmation", id |-> path[8], token |-> None]
            ELSE IF method = "GET" /\ is_some(token)
            THEN [handler |-> "confirm_email", id |-> path[8], token |-> token]
            ELSE [handler |-> "rejected", id |-> path[8], token |-> None]
       ELSE [handler |-> "not_found", id |-> "u1", token |-> None]

\* A mail in the making: the inputs of the template, the link once
\* rendered and what the router made of a GET of the link.
Link_Init ==
    /\ db = [u \in Ids |-> None]
    /\ now = 0
    /\ nextToken = 1
    /\ stored = [u \in Ids |-> <<>>]
    /\ plainConfirmed = [u \in Ids |-> FALSE]
    /\ \E base_url \in BaseUrls, user_id \in Ids, token \in EncodedTokens :
        slot = [pc |-> "new", base_url |-> base_url, user_id |-> user_id,
                token |-> token, link |-> <<>>, request |-> None]

\* send_email_confirmation renders the mail with the link.
Link_render ==
    /\ slot.pc = "new"
    /\ slot' = [slot EXCEPT !.pc = "mailed",
                    !.link = ConfirmEmailAddressTemplate_new(
                                slot.base_url, slot.user_id, slot.token)]
    /\ UNCHANGED <<db, now, nextToken, stored, plainConfirmed>>

\* The recipient follows the link: a GET of its target at its origin.
Link_follow ==
    /\ slot.pc = "mailed"
    /\ slot' = [slot EXCEPT !.pc = "requested",
                    !.request = Some(router("GET", Target(slot.link)))]
    /\ UNCHANGED <<db, now, nextToken, stored, plainConfirmed>>

Link_Next == Link_render \/ Link_follow

Link_Spec == Link_Init /\ [][Link_Next]_vars

\* ======================================================================
\* Password::new.  A raw password is given by how many of its characters
\* take one byte in UTF-8 and how many take two, and by the score the
\* strength estimator gives it.
\* ======================================================================
MaxAscii == 101
MaxWide == 2
MinLength == 8
MaxLength == 100

\* Score::Zero .. Score::Four; Score::Three is the least accepted.
Scores == 0..4
ScoreThree == 3

RawPasswords == [ascii : 0..MaxAscii, wide : 0..MaxWide, score : Scores]

\* str::len: the length of the string in bytes.
str_len(raw) == raw.ascii + 2 * raw.wide

\* The number of characters of the string.
chars_count(raw) == raw.ascii + raw.wide

Password_new(raw) ==
    IF str_len(raw) < MinLength THEN "TooShort"
    ELSE IF str_len(raw) > MaxLength THEN "TooLong"
    ELSE IF raw.score < ScoreThree THEN "TooWeak"
    ELSE "Ok"

Password_Init ==
    /\ db = [u \in Ids |-> None]
    /\ now = 0
    /\ nextToken = 1
    /\ stored = [u \in Ids |-> <<>>]
    /\ plainConfirmed = [u \in Ids |-> FALSE]
    /\ \E raw \in RawPasswords : slot = [pc |-> "new", raw |-> raw, result |-> "None"]

Password_new_call ==
    /\ slot.pc = "new"
    /\ slot' = [slot EXCEPT !.pc = "done", !.result = Password_new(slot.raw)]
    /\ UNCHANGED <<db, now, nextToken, stored, plainConfirmed>>

Password_Next == Password_new_call

Password_Spec == Password_Init /\ [][Password_Next]_vars

\* ======================================================================
\* The HTTP layer: the status each endpoint answers with, from what
\* get_user_by_id and the EmailAddressService returned to its handler.
\* ======================================================================
EmailConfirmationErrors ==
    {"UserNotFound", "EmailAddressInUse", "CouldNotSendEmail",
     "EmailAlreadyConfirmed", "ConfirmationTokenExpired",
     "ConfirmationTokenMismatch", "UnknownError"}

GetUserByIdErrors == {"UserNotFound", "UnknownError"}

\* impl From<EmailConfirmationError> for ApiError: the status of the
\* ApiError.
ApiError_from_EmailConfirmationError(err) ==
    CASE err = "UserNotFound" -> 404
      [] err = "CouldNotSendEmail" -> 500
      [] err = "EmailAlreadyConfirmed" -> 409
      [] err = "ConfirmationTokenExpired" -> 422
      [] err = "ConfirmationTokenMismatch" -> 422
      [] err = "EmailAddressInUse" -> 409
      [] err = "UnknownError" -> 500

\* impl From<GetUserByIdError> for ApiError.
ApiError_from_GetUserByIdError(err) ==
    IF err = "UserNotFound" THEN 404 ELSE 500

\* impl IntoResponse for EmailConfirmationError.
EmailConfirmationError_into_response(err) ==
    CASE err = "UserNotFound" -> 404
      [] err \in {"ConfirmationTokenExpired", "ConfirmationTokenMismatch"} -> 422
      [] err = "EmailAlreadyConfirmed" -> 409
      [] OTHER -> 500

\* The handlers of send_email_confirmation and change_email: both calls
\* end in `?`, which answers with the ApiError made of the error.
send_email_confirmation_handler(read, result) ==
    IF read # "Ok" THEN ApiError_from_GetUserByIdError(read)
    ELSE IF result # "Ok" THEN ApiError_from_EmailConfirmationError(result)
    ELSE 202

\* The handler of confirm_email, which matches on the errors itself.
confirm_email_handler(read, result) ==
    IF read # "Ok" THEN (IF read = "UserNotFound" THEN 404 ELSE 500)
    ELSE CASE result = "Ok" -> 200
           [] result = "UserNotFound" -> 404
           [] result \in {"ConfirmationTokenExpired", "ConfirmationTokenMismatch"} -> 422
           [] result = "EmailAlreadyConfirmed" -> 409
           [] OTHER -> 500

\* The paths on which an EmailConfirmationError becomes a response.
Endpoints == {"send_email_confirmation", "change_email", "confirm_email", "into_response"}

\* The error that reaches the HTTP layer, or "Ok".
Arisen(endpoint, read, result) ==
    IF endpoint # "into_response" /\ read # "Ok" THEN read ELSE result

Http_status(endpoint, read, result) ==
    CASE endpoint \in {"send_email_confirmation", "change_email"}
            -> send_email_confirmation_handler(read, result)
      [] endpoint = "confirm_email" -> confirm_email_handler(read, result)
      [] endpoint = "into_response"
            -> IF result = "Ok" THEN 200
               ELSE EmailConfirmationError_into_response(result)

Http_Init ==
    /\ db = [u \in Ids |-> None]
    /\ now = 0
    /\ nextToken = 1
    /\ stored = [u \in Ids |-> <<>>]
    /\ plainConfirmed = [u \in Ids |-> FALSE]
    /\ \E endpoint \in Endpoints,
          read \in {"Ok"} \cup GetUserByIdErrors,
          result \in {"Ok"} \cup EmailConfirmationErrors :
        slot = [pc |-> "served", endpoint |-> endpoint, read |-> read,
                result |-> result, status |-> 0]

Http_respond ==
    /\ slot.pc = "served"
    /\ slot' = [slot EXCEPT !.pc = "responded",
                    !.status = Http_status(slot.endpoint, slot.read, slot.result)]
    /\ UNCHANGED <<db, now, nextToken, stored, plainConfirmed>>

Http_Next == Http_respond

Http_Spec == Http_Init /\ [][Http_Next]_vars

\* ======================================================================
\* Properties
\* ======================================================================
\* A request of the given kind has its result (the state right after the
\* handler's last step; `now` is still the time of that step).
Done(p, kind) == slot[p].pc = "done" /\ slot[p].kind = kind

\* A finished request that found its user: the user as the handler read it.
Found(p) == is_some(slot[p].user)
Snap(p) == unwrap(slot[p].user)
Row(u) == unwrap(db[u])
Last(seq) == seq[Len(seq)]

\* The user a confirm request read was unconfirmed and carried a token
\* that has not expired at the time of the check.
Unexpired(p) ==
    /\ is_none(Snap(p).email_confirmed_at)
    /\ is_some(Snap(p).email_confirmation_token)
    /\ is_some(Snap(p).email_confirmation_sent_at)
    /\ now <= unwrap(Snap(p).email_confirmation_sent_at) + Hours24

Presented(p) == slot[p].token
Matches(p) == Presented(p) = unwrap(Snap(p).email_confirmation_token)

\* C1, first half: on an unconfirmed account without pending new email
\* whose token is at most 24 hours old, confirm_email with the stored
\* token succeeds and the account is confirmed.
C1_FirstConfirmSucceeds ==
    \A p \in Procs :
        (Done(p, "confirm") /\ Found(p) /\ Unexpired(p) /\ Matches(p)
            /\ is_none(Snap(p).new_email))
        => /\ slot[p].result = "Ok"
           /\ is_some(Row(slot[p].uid).email_confirmed_at)

\* C1 as claimed: the first half, and every confirm_email that read the
\* account after such a confirmation completed fails with
\* EmailAlreadyConfirmed without calling the repository.
C1_EveryLaterConfirmFails ==
    /\ C1_FirstConfirmSucceeds
    /\ \A p \in Procs :
        (Done(p, "confirm") /\ Found(p) /\ slot[p].seen)
        => /\ slot[p].result = "EmailAlreadyConfirmed"
           /\ ~slot[p].invoked

\* C1 as amended: the first half, and every confirm_email that read the
\* account after such a confirmation completed, and found no pending new
\* email on it, fails with EmailAlreadyConfirmed without calling the
\* repository.
C1_ConfirmOnce ==
    /\ C1_FirstConfirmSucceeds
    /\ \A p \in Procs :
        (Done(p, "confirm") /\ Found(p) /\ slot[p].seen /\ is_none(Snap(p).new_email))
        => /\ slot[p].result = "EmailAlreadyConfirmed"
           /\ ~slot[p].invoked

\* A confirm request that read the account after its confirmation and
\* presented a generated token was answered EmailAlreadyConfirmed.
C1_Witness ==
    \E p \in Procs :
        /\ Done(p, "confirm") /\ Found(p) /\ slot[p].seen
        /\ is_none(Snap(p).new_email)
        /\ Len(Presented(p)) = 2
        /\ slot[p].result = "EmailAlreadyConfirmed"

\* C2: a confirm_email that succeeds presented the token most recently
\* stored for the account; a token superseded by a later
\* send_email_confirmation never confirms, whenever the account was read.
C2_SupersededTokenNeverConfirms ==
    \A p \in Procs :
        (Done(p, "confirm") /\ slot[p].result = "Ok")
        => Presented(p) = Last(stored[slot[p].uid])

\* The confirm request read the account when two or more tokens had been
\* stored for it and none has been stored since: it follows two
\* send_email_confirmation calls in succession.
AfterTwoSends(p) ==
    /\ Done(p, "confirm") /\ Found(p)
    /\ is_none(Snap(p).email_confirmed_at)
    /\ slot[p].nstored >= 2
    /\ slot[p].nstored = Len(stored[slot[p].uid])

Superseded(p) ==
    \E i \in 1..(Len(stored[slot[p].uid]) - 1) : Presented(p) = stored[slot[p].uid][i]

\* C3 as claimed: after two send_email_confirmation calls in succession, a
\* confirm_email presenting the first call's token fails with
\* ConfirmationTokenMismatch and the second call's token is accepted (the
\* repository is asked to mark the account confirmed).
C3_FirstTokenMismatch ==
    \A p \in Procs :
        AfterTwoSends(p)
        => /\ Superseded(p) => slot[p].result = "ConfirmationTokenMismatch"
           /\ Presented(p) = Last(stored[slot[p].uid]) => slot[p].invoked

\* C3 as amended: the same, for a confirm_email made within 24 hours of
\* the second call's issuance time.
C3_FirstTokenMismatchInTime ==
    \A p \in Procs :
        (AfterTwoSends(p)
            /\ now <= unwrap(Snap(p).email_confirmation_sent_at) + Hours24)
        => /\ Superseded(p) => /\ slot[p].result = "ConfirmationTokenMismatch"
                               /\ ~slot[p].invoked
           /\ Presented(p) = Last(stored[slot[p].uid]) => slot[p].invoked

\* After two sends the first token was presented in time and was refused
\* with ConfirmationTokenMismatch.
C3_Witness ==
    \E p \in Procs :
        /\ AfterTwoSends(p) /\ Superseded(p)
        /\ now <= unwrap(Snap(p).email_confirmation_sent_at) + Hours24
        /\ slot[p].result = "ConfirmationTokenMismatch"

\* C4: confirm_email on an unconfirmed account later than the issuance time
\* plus 24 hours fails with ConfirmationTokenExpired, matching token or
\* not, and the repository is not called; at exactly the issuance time
\* plus 24 hours a matching token is accepted.
C4_Expiry ==
    \A p \in Procs :
        (Done(p, "confirm") /\ Found(p)
            /\ is_none(Snap(p).email_confirmed_at)
            /\ is_some(Snap(p).email_confirmation_token)
            /\ is_some(Snap(p).email_confirmation_sent_at))
        => LET sent_at == unwrap(Snap(p).email_confirmation_sent_at) IN
           /\ now > sent_at + Hours24
                => slot[p].result = "ConfirmationTokenExpired" /\ ~slot[p].invoked
           /\ (now = sent_at + Hours24 /\ Matches(p))
                => slot[p].invoked /\ slot[p].result # "ConfirmationTokenExpired"

\* The stored token itself was presented after its 24 hours and refused.
C4_Witness ==
    \E p \in Procs :
        /\ Done(p, "confirm") /\ Found(p)
        /\ is_none(Snap(p).email_confirmed_at)
        /\ is_some(Snap(p).email_confirmation_token)
        /\ Matches(p)
        /\ now > unwrap(Snap(p).email_confirmation_sent_at) + Hours24
        /\ slot[p].result = "ConfirmationTokenExpired"

\* C5: confirm_email on an unconfirmed account with an unexpired token and a
\* presented token that differs from it, in content or in length, fails
\* with ConfirmationTokenMismatch and the repository is not called.
C5_Mismatch ==
    \A p \in Procs :
        (Done(p, "confirm") /\ Found(p) /\ Unexpired(p) /\ ~Matches(p))
        => /\ slot[p].result = "ConfirmationTokenMismatch"
           /\ ~slot[p].invoked

\* A token of another length than the stored one was refused.
C5_Witness ==
    \E p \in Procs :
        /\ Done(p, "confirm") /\ Found(p) /\ Unexpired(p)
        /\ Len(Presented(p)) # Len(unwrap(Snap(p).email_confirmation_token))
        /\ slot[p].result = "ConfirmationTokenMismatch"

\* C6: in every state the stored token and the stored confirmation-sent
\* timestamp of an account are both present or both absent.
C6_TokenAndSentAtTogether ==
    \A u \in Ids :
        is_some(db[u])
        => (is_some(Row(u).email_confirmation_token)
                <=> is_some(Row(u).email_confirmation_sent_at))

\* C7: within one send_email_confirmation the Mailer is called only after
\* the repository stored the call's token; when that update fails the call
\* ends in an error and the Mailer is not called.
C7_MailAfterStore ==
    \A p \in Procs :
        slot[p].kind \in {"send", "change"}
        => /\ (slot[p].pc = "mail" \/ slot[p].mailed # "no")
                => /\ slot[p].updated
                   /\ \E i \in 1..Len(stored[slot[p].uid]) :
                        stored[slot[p].uid][i] = slot[p].token
           /\ (slot[p].pc = "done" /\ slot[p].invoked /\ ~slot[p].updated)
                => /\ slot[p].result \notin {"None", "Ok"}
                   /\ slot[p].mailed = "no"

\* A send_email_confirmation whose repository update failed has ended.
C7_Witness ==
    \E p \in Procs :
        /\ Done(p, "send")
        /\ slot[p].invoked /\ ~slot[p].updated
        /\ slot[p].mailed = "no"

\* C8: an email-change request on a confirmed account without pending new
\* email is not rejected: a token is stored for it.
C8_ChangeOnConfirmedAccepted ==
    \A p \in Procs :
        (Done(p, "change") /\ Found(p)
            /\ is_some(Snap(p).email_confirmed_at)
            /\ is_none(Snap(p).new_email))
        => /\ slot[p].result # "EmailAlreadyConfirmed"
           /\ slot[p].invoked

\* C9: a confirm_email that completes a change to an address another
\* account holds fails with EmailAddressInUse, and the account keeps its
\* email, pending new email and confirmation state.
C9_ClashIsEmailInUse ==
    \A p \in Procs :
        (Done(p, "confirm") /\ Found(p) /\ slot[p].invoked
            /\ is_some(Snap(p).new_email)
            /\ EmailTaken(db, unwrap(Snap(p).new_email), slot[p].uid))
        => slot[p].result = "EmailAddressInUse"

\* C10: create_user with the email of an existing account fails with
\* DuplicateUser and creates no account; with an unused email it succeeds,
\* returns the id of the request and the account exists.
C10_CreateUser ==
    \A p \in Procs :
        Done(p, "create")
        => LET id == slot[p].uid
               email == unwrap(slot[p].new_email)
           IN IF EmailTaken(db, email, id)
              THEN slot[p].result = "DuplicateUser" /\ is_none(db[id])
              ELSE /\ slot[p].result = "Ok"
                   /\ slot[p].id = Some(id)
                   /\ db[id] = Some(NewRow(email))

\* A create_user was refused because another account holds the email.
C10_Witness ==
    \E p \in Procs :
        /\ Done(p, "create")
        /\ slot[p].result = "DuplicateUser"
        /\ EmailTaken(db, unwrap(slot[p].new_email), slot[p].uid)

\* C11: create_user returns exactly the repository's create result (Ok
\* with the id of an account that exists, or the repository's error),
\* whatever the spawned task has done by then: not started, stored or
\* failed to store its token, sent or failed to send its mail.
C11_CreateReturnsRepositoryResult ==
    \A p \in Procs :
        (slot[p].kind = "create" /\ slot[p].returned # "None")
        => /\ slot[p].returned = slot[p].created
           /\ slot[p].returned = "Ok" => is_some(db[slot[p].id])

\* One create_user has returned while its task has not started, and
\* another has returned Ok although its task ended in an error.
C11_Witness ==
    \E p, q \in Procs :
        /\ slot[p].kind = "create" /\ slot[p].returned # "None"
        /\ slot[p].pc = "spawned"
        /\ slot[q].kind = "create" /\ slot[q].returned = "Ok"
        /\ slot[q].pc = "done"
        /\ slot[q].result \in {"UnknownError", "CouldNotSendEmail"}

\* C12: a send_email_confirmation (either confirmation type) given a user
\* that is confirmed and has no pending new email returns
\* EmailAlreadyConfirmed, stores no token and does not call the Mailer;
\* given an unconfirmed user, or one with a pending new email, it is not
\* answered EmailAlreadyConfirmed.
C12_AlreadyConfirmedRejected ==
    \A p \in Procs :
        slot[p].kind \in {"send", "change"}
        => /\ (slot[p].pc = "done" /\ Found(p))
                => IF is_some(Snap(p).email_confirmed_at) /\ is_none(Snap(p).new_email)
                   THEN /\ slot[p].result = "EmailAlreadyConfirmed"
                        /\ ~slot[p].invoked
                        /\ slot[p].mailed = "no"
                   ELSE slot[p].result # "EmailAlreadyConfirmed"
           /\ slot[p].result = "EmailAlreadyConfirmed"
                => /\ Found(p)
                   /\ is_some(Snap(p).email_confirmed_at)
                   /\ is_none(Snap(p).new_email)

\* A request for the current email on a confirmed account was rejected.
C12_Witness ==
    \E p \in Procs :
        /\ Done(p, "send") /\ Found(p)
        /\ is_some(Snap(p).email_confirmed_at) /\ is_none(Snap(p).new_email)
        /\ slot[p].result = "EmailAlreadyConfirmed"
        /\ ~slot[p].invoked

\* C13: a token confirms at most once.  For an account that was issued
\* one token only, no confirm_email succeeds once the account has been
\* confirmed, even if it read the account before that confirmation.
C13_TokenSingleUse ==
    [][\A p \in Procs :
        (slot[p].kind = "confirm" /\ slot[p].pc = "got"
            /\ slot'[p].pc = "done" /\ slot'[p].result = "Ok"
            /\ Len(stored[slot[p].uid]) = 1)
        => is_none(Row(slot[p].uid).email_confirmed_at)]_vars

\* C14: the token and the issuance time of an account are written
\* together and by update_email_confirmation_token only: a step that
\* stores a token leaves the row with that token and the time of that
\* step, whatever other send_email_confirmation is under way, and no
\* other step writes a token or an issuance time; the storing call goes
\* on to its mail; and a confirm_email that read the account after two or
\* more stores, with none since, is accepted only with the last token.
C14_LastWriterWins ==
    [][/\ \A u \in Targets :
            /\ stored'[u] # stored[u]
                => /\ Row(u).email_confirmation_token # Some(Last(stored'[u]))
                   /\ unwrap(db'[u]).email_confirmation_token = Some(Last(stored'[u]))
                   /\ unwrap(db'[u]).email_confirmation_sent_at = Some(now)
                   /\ \E p \in Procs :
                        /\ slot[p].pc = "got" /\ slot'[p].pc = "mail"
                        /\ slot'[p].token = Last(stored'[u])
            /\ (is_some(db[u]) /\ stored'[u] = stored[u])
                => /\ unwrap(db'[u]).email_confirmation_sent_at = Row(u).email_confirmation_sent_at
                   /\ unwrap(db'[u]).email_confirmation_token
                        \in {Row(u).email_confirmation_token, None}
       /\ \A p \in Procs :
            (slot[p].kind = "confirm" /\ slot[p].pc = "got" /\ slot'[p].invoked
                /\ slot[p].nstored >= 2
                /\ slot[p].nstored = Len(stored[slot[p].uid]))
            => slot'[p].token = Last(stored[slot[p].uid])
      ]_vars

\* Two send_email_confirmation calls overlapped (the other stored its
\* token between this call's read and this call's store), both have
\* finished, this one successfully, and the row holds this call's token.
C14_Witness ==
    \E p \in Procs :
        /\ Done(p, "send") /\ slot[p].result = "Ok"
        /\ slot[p].nstored + 2 = Len(stored[slot[p].uid])
        /\ slot[p].token = Last(stored[slot[p].uid])
        /\ Row(slot[p].uid).email_confirmation_token = Some(slot[p].token)
        /\ \A q \in Procs \ {p} : slot[q].pc = "idle"

\* C15: the expiry a successful send_email_confirmation returns is the
\* issuance time the repository stored with the call's token plus 24
\* hours.
C15_ReturnedExpiryIsStoredExpiry ==
    \A p \in Procs :
        (slot[p].kind \in {"send", "change"} /\ slot[p].pc = "done"
            /\ slot[p].result = "Ok"
            /\ Row(slot[p].uid).email_confirmation_token = Some(slot[p].token))
        => slot[p].expires_at =
                Some(unwrap(Row(slot[p].uid).email_confirmation_sent_at) + Hours24)

\* C16: a confirm_email that succeeds for a user with pending new_email e
\* leaves the account with email e, no new_email, no token and
\* email_confirmed_at set; for a user without pending new_email it leaves
\* the email as it was, and the rest likewise.
C16_ConfirmPromotesPendingEmail ==
    [][\A p \in Procs :
        (slot[p].kind = "confirm" /\ slot[p].pc = "got"
            /\ slot'[p].pc = "done" /\ slot'[p].result = "Ok")
        => LET user == Snap(p)
               row == unwrap(db'[slot[p].uid])
           IN /\ row.email_confirmed_at = Some(now)
              /\ is_none(row.email_confirmation_token)
              /\ is_none(row.new_email)
              /\ row.email = IF is_some(user.new_email)
                             THEN unwrap(user.new_email)
                             ELSE Row(slot[p].uid).email
      ]_vars

\* A confirmation has replaced the account's email by the pending one.
C16_Witness ==
    \E p \in Procs :
        /\ Done(p, "confirm") /\ slot[p].result = "Ok" /\ Found(p)
        /\ is_some(Snap(p).new_email)
        /\ Snap(p).email # unwrap(Snap(p).new_email)
        /\ Row(slot[p].uid).email = unwrap(Snap(p).new_email)
        /\ is_none(Row(slot[p].uid).new_email)

\* C17: no step of a send_email_confirmation, of either confirmation type,
\* changes the email or the email_confirmed_at of any account, or any
\* column of another account; a CurrentEmail call leaves new_email as it
\* is, and a NewEmail(e) call that stores its token sets new_email to e.
C17_SendKeepsEmail ==
    [][\A p \in Procs :
        (slot[p].kind \in {"send", "change"} /\ slot[p].pc \in {"got", "mail"}
            /\ slot'[p] # slot[p])
        => \A u \in Ids :
            is_some(db[u])
            => LET old == Row(u)
                   new == unwrap(db'[u])
               IN /\ new.email = old.email
                  /\ new.email_confirmed_at = old.email_confirmed_at
                  /\ u # slot[p].uid => new = old
                  /\ slot[p].kind = "send" => new.new_email = old.new_email
                  /\ (slot[p].kind = "change" /\ u = slot[p].uid)
                        => new.new_email =
                            IF stored'[u] # stored[u] THEN slot'[p].new_email
                            ELSE old.new_email
      ]_vars

\* An email-change request has stored its token and its pending address,
\* and the account still has its own email.
C17_Witness ==
    \E p \in Procs :
        /\ slot[p].kind = "change" /\ slot[p].pc = "mail"
        /\ Row(slot[p].uid).email_confirmation_token = Some(slot[p].token)
        /\ Row(slot[p].uid).new_email = slot[p].new_email
        /\ is_some(slot[p].new_email)
        /\ Row(slot[p].uid).email # unwrap(slot[p].new_email)

C19_MailOnceToRecipient ==
    [][\A p \in Procs :
        slot[p].kind \in {"send", "change"}
        => /\ (slot[p].pc = "got" /\ slot'[p].pc = "mail")
                => /\ slot'[p].mailed = "no"
                   /\ slot'[p].to = IF slot[p].kind = "change"
                                    THEN slot'[p].new_email
                                    ELSE Some(Snap(p).email)
           /\ (slot[p].pc = "got" /\ slot'[p].pc = "done")
                => slot'[p].mailed = "no" /\ slot'[p].result # "Ok"
           /\ (slot[p].pc = "mail" /\ slot'[p] # slot[p])
                => /\ slot[p].mailed = "no"
                   /\ slot'[p].pc = "done"
                   /\ slot'[p].mailed \in {"sent", "failed"}
                   /\ slot'[p].to = slot[p].to
                   /\ slot'[p].result = "Ok" <=> slot'[p].mailed = "sent"
                   /\ slot'[p].result = "Ok"
                        => /\ is_some(slot'[p].expires_at)
                           /\ unwrap(slot'[p].expires_at) > now
      ]_vars

\* An email-change request succeeded with one mail, sent to the new
\* address, which is not the account's email.
C19_Witness ==
    \E p \in Procs :
        /\ Done(p, "change") /\ slot[p].result = "Ok"
        /\ slot[p].mailed = "sent"
        /\ slot[p].to = slot[p].new_email
        /\ slot[p].to # Some(Row(slot[p].uid).email)

\* What a confirm_email returns that reads account u in the present state
\* and presents `token` at time t, nothing else touching the account in
\* between: the checks of confirm_email, then update_email_confirmed,
\* which the unique index refuses when the pending new email is held by
\* another account.
ConfirmsNow(u, token, t) ==
    /\ confirm_email_checks(Row(u), token, t) = "Ok"
    /\ ~(is_some(Row(u).new_email) /\ EmailTaken(db, unwrap(Row(u).new_email), u))

\* C20: when a send_email_confirmation for the current email of an
\* unconfirmed account has succeeded and nothing has touched the account since its token was
\* stored, a confirm_email presenting that token at any time within 24
\* hours of the issuance time confirms the account.
C20_ResendThenConfirm ==
    \A p \in Procs :
        (Done(p, "send") /\ slot[p].result = "Ok"
            /\ is_none(Row(slot[p].uid).email_confirmed_at)
            /\ Row(slot[p].uid).email_confirmation_token = Some(slot[p].token))
        => \A t \in 0..(MaxTime + Hours24) :
            (/\ t >= unwrap(Row(slot[p].uid).email_confirmation_sent_at)
             /\ t <= unwrap(Row(slot[p].uid).email_confirmation_sent_at) + Hours24)
            => ConfirmsNow(slot[p].uid, slot[p].token, t)

\* C21: a send-confirmation, change-email or confirm-email request for an
\* id that has no account ends in the not-found outcome; the repository
\* is not asked to update anything, no token is stored for the id and no
\* mail is sent.
C21_UnknownUserNotFound ==
    \A p \in Procs :
        (slot[p].kind \in {"send", "change", "confirm"} /\ slot[p].pc = "done"
            /\ is_none(db[slot[p].uid]))
        => /\ slot[p].result = "UserNotFound"
           /\ ~slot[p].invoked
           /\ slot[p].token = <<>>
           /\ slot[p].mailed = "no"
           /\ stored[slot[p].uid] = <<>>

\* A change-email request for an id without account was answered not
\* found.
C21_Witness ==
    \E p \in Procs :
        /\ Done(p, "change")
        /\ is_none(db[slot[p].uid])
        /\ slot[p].result = "UserNotFound"

\* C22: the link of the mail is base_url, "/api/v1/users/", the user id,
\* "/email/confirmation?token=" and the token; a GET of it reaches the
\* confirm_email handler with that user id and that token.
C22_LinkAddressesConfirm ==
    /\ slot.pc \in {"mailed", "requested"}
        => slot.link = slot.base_url
                \o <<"/", "api", "/", "v1", "/", "users", "/">> \o <<slot.user_id>>
                \o <<"/", "email", "/", "confirmation", "?", "token", "=">>
                \o slot.token
    /\ slot.pc = "requested"
        => slot.request = Some([handler |-> "confirm_email",
                                id |-> slot.user_id,
                                token |-> Some(slot.token)])

\* A link whose token holds both "-" and "_" and ends with the padding
\* has been followed to confirm_email.
C22_Witness ==
    /\ slot.pc = "requested"
    /\ slot.token = <<"-", "_", "=">>
    /\ unwrap(slot.request).handler = "confirm_email"

\* C23: Password::new answers TooShort to every input of fewer than 8
\* characters, TooLong to every input of more than 100 characters, and
\* neither of the two to an input of 8 to 100 characters.
C23_LengthInCharacters ==
    slot.pc = "done" =>
        /\ chars_count(slot.raw) < MinLength => slot.result = "TooShort"
        /\ chars_count(slot.raw) > MaxLength => slot.result = "TooLong"
        /\ chars_count(slot.raw) \in MinLength..MaxLength
            => slot.result \notin {"TooShort", "TooLong"}

\* C24: a token confirms only the address it was mailed to.  When a send
\* or change request has mailed a token that the row still holds, a
\* confirm_email that reads the account now and succeeds with that token
\* makes the address of the mail the account's email.
C24_ConfirmsMailedAddress ==
    \A p \in Procs :
        LET u == slot[p].uid IN
        (/\ slot[p].pc = "done"
         /\ slot[p].kind \in {"send", "change"}
         /\ slot[p].mailed = "sent"
         /\ is_some(db[u])
         /\ Row(u).email_confirmation_token = Some(slot[p].token)
         /\ confirm_email_checks(Row(u), slot[p].token, now) = "Ok"
         /\ ~(is_some(Row(u).new_email) /\ EmailTaken(db, unwrap(Row(u).new_email), u)))
            => update_email_confirmed(Row(u), Row(u).new_email, now).email
                    = unwrap(slot[p].to)

\* C25: when the INSERT of create_user fails, the task the call spawned
\* ends at its first statement: it finds no user under the new id, so it
\* stores no token, sends no mail and changes no row.
C25_FailedCreateDoesNothing ==
    \A p \in Procs :
        (slot[p].kind = "create" /\ slot[p].created # "Ok")
            => /\ slot[p].pc \in {"spawned", "done"}
               /\ slot[p].result \in {"None", "UserNotFound"}
               /\ is_none(db[slot[p].id])
               /\ stored[slot[p].id] = <<>>

\* A create_user whose INSERT failed with the duplicate-user error has
\* returned it, and its task has run and ended.
C25_Witness ==
    \E p \in Procs :
        /\ slot[p].kind = "create"
        /\ slot[p].created = "DuplicateUser"
        /\ slot[p].returned = "DuplicateUser"
        /\ slot[p].pc = "done"
        /\ slot[p].result = "UserNotFound"

\* C26: confirm_email reports the first failing check in the order
\* already confirmed, no stored token, expired, mismatch.  A confirmed
\* user without pending new email gets EmailAlreadyConfirmed whatever the
\* token; otherwise a user without stored token gets
\* ConfirmationTokenMismatch; otherwise an expired token gets
\* ConfirmationTokenExpired whether or not it matches; otherwise a token
\* that does not match gets ConfirmationTokenMismatch.
C26_FirstFailingCheck ==
    \A p \in Procs :
        (Done(p, "confirm") /\ Found(p)) =>
            LET user == Snap(p)
                confirmed == is_some(user.email_confirmed_at) /\ is_none(user.new_email)
                no_token == is_none(user.email_confirmation_token)
                expired == /\ is_some(user.email_confirmation_sent_at)
                           /\ now > unwrap(user.email_confirmation_sent_at) + Hours24
                mismatch == ~no_token /\ Presented(p) # unwrap(user.email_confirmation_token)
            IN /\ confirmed => slot[p].result = "EmailAlreadyConfirmed"
               /\ (~confirmed /\ no_token) => slot[p].result = "ConfirmationTokenMismatch"
               /\ (~confirmed /\ ~no_token /\ expired)
                    => slot[p].result = "ConfirmationTokenExpired"
               /\ (~confirmed /\ ~no_token /\ ~expired /\ mismatch)
                    => slot[p].result = "ConfirmationTokenMismatch"

\* A confirm_email has been refused as expired with a token that does not
\* match the stored one either.
C26_Witness ==
    \E p \in Procs :
        /\ Done(p, "confirm") /\ Found(p)
        /\ is_some(Snap(p).email_confirmation_token)
        /\ Presented(p) # unwrap(Snap(p).email_confirmation_token)
        /\ slot[p].result = "ConfirmationTokenExpired"

\* C27 (as stated): when the Mailer fails during send_email_confirmation,
\* the call returns the unknown error and no expiry.
C27_MailerFailureIsUnknown ==
    \A p \in Procs :
        (slot[p].pc = "done" /\ slot[p].mailed = "failed")
            => /\ slot[p].result = "UnknownError"
               /\ is_none(slot[p].expires_at)

\* C27 (amended): when the Mailer fails during send_email_confirmation,
\* the call returns an error and no expiry: CouldNotSendEmail when the
\* Mailer reported SendError or InvalidEmail, the unknown error when it
\* reported UnknownError.
C27_MailerFailureIsError ==
    [][\A p \in Procs, outcome \in MailerOutcomes \ {"Ok"} :
        SendMail(p, outcome)
            => /\ slot'[p].pc = "done"
               /\ slot'[p].mailed = "failed"
               /\ is_none(slot'[p].expires_at)
               /\ slot'[p].result =
                    IF outcome \in {"SendError", "InvalidEmail"}
                    THEN "CouldNotSendEmail"
                    ELSE "UnknownError"
      ]_vars

\* A send_email_confirmation whose mail failed has returned
\* CouldNotSendEmail.
C27_Witness ==
    \E p \in Procs :
        /\ slot[p].pc = "done"
        /\ slot[p].kind \in {"send", "change"}
        /\ slot[p].mailed = "failed"
        /\ slot[p].result = "CouldNotSendEmail"

\* C28: a failure of the Mailer leaves the table as the token update left
\* it: nothing is restored.  When the failed call's token is the last one
\* stored for the account and the row still holds a token, it holds that
\* one, and no token stored before it passes the checks of confirm_email.
C28_MailerFailureKeepsNewToken ==
    [][\A p \in Procs, outcome \in MailerOutcomes \ {"Ok"} :
        SendMail(p, outcome)
            => LET u == slot[p].uid
                   tok == slot[p].token
               IN /\ db' = db
                  /\ (Last(stored[u]) = tok /\ is_some(Row(u).email_confirmation_token))'
                        => (Row(u).email_confirmation_token = Some(tok))'
                  /\ \A k \in 1..Len(stored[u]) :
                        stored[u][k][1] < tok[1]
                            => (confirm_email_checks(Row(u), stored[u][k], now) # "Ok")'
      ]_vars

\* A send_email_confirmation that replaced an earlier token has seen its
\* mail fail; the row holds the new token.
C28_Witness ==
    \E p \in Procs :
        /\ slot[p].pc = "done"
        /\ slot[p].kind = "send"
        /\ slot[p].mailed = "failed"
        /\ Len(stored[slot[p].uid]) = 2
        /\ Last(stored[slot[p].uid]) = slot[p].token
        /\ Row(slot[p].uid).email_confirmation_token = Some(slot[p].token)

\* C29: in every reachable state no two accounts have the same email.
C29_EmailsUnique ==
    \A u, v \in Ids :
        (u # v /\ is_some(db[u]) /\ is_some(db[v]))
            => Row(u).email # Row(v).email

\* Two accounts exist, and a confirm_email that would have given one of
\* them the email of the other has been refused by the table.
C29_Witness ==
    \E p \in Procs :
        /\ Done(p, "confirm") /\ Found(p)
        /\ slot[p].invoked /\ ~slot[p].updated
        /\ is_some(Snap(p).new_email)
        /\ \E v \in Ids \ {slot[p].uid} :
            /\ is_some(db[v])
            /\ Row(v).email = unwrap(Snap(p).new_email)
            /\ Row(v).email # Row(slot[p].uid).email

\* C30: on every path the response to a confirmation error has the status
\* of its kind: 404 for user not found, 422 for an expired or mismatched
\* token, 409 for EmailAlreadyConfirmed and for EmailAddressInUse.
C30_FixedStatus ==
    slot.pc = "responded" =>
        LET err == Arisen(slot.endpoint, slot.read, slot.result) IN
        /\ err = "UserNotFound" => slot.status = 404
        /\ err \in {"ConfirmationTokenExpired", "ConfirmationTokenMismatch"}
            => slot.status = 422
        /\ err \in {"EmailAlreadyConfirmed", "EmailAddressInUse"}
            => slot.status = 409

====
